---- MODULE Spec2Model ----
(***************************************************************************)
(* Run lifecycle coordinator of the AFC adapter host.                      *)
(*                                                                         *)
(* The HTTP handlers create_run, resume_run and cancel_run                 *)
(* (app/routes/runs.py) are plain "def" handlers, so the framework runs    *)
(* them on worker threads.  STORE.get_run hands out the stored RunState    *)
(* object itself (app/store.py:18-20), so every "run.status = ..." of a    *)
(* handler is a write to the shared object, visible to every other thread  *)
(* at once; the store lock only covers the dictionary and list operations. *)
(* One action below is one read of run.status, or one block of a handler   *)
(* that writes the shared object (the status assignment with the field     *)
(* assignments and the update_run that follow it), or one emit_event,      *)
(* together with the thread-local statements next to it; one call of       *)
(* GRAPH.invoke                                                            *)
(* (app/langgraph_poc.py) is one action that appends the events of the     *)
(* graph nodes the call runs.                                              *)
(***************************************************************************)
EXTENDS Integers, Sequences, FiniteSets, Bags

(***************************************************************************)
(* Bounds of the model.                                                    *)
(***************************************************************************)
MaxCalls   == 3   \* HTTP calls in one behaviour
MaxThreads == 2   \* worker threads: calls being handled at the same time
MaxRuns  == 2     \* run identifiers a behaviour may allocate / address
MaxTime  == 1     \* the millisecond clock counts 0..MaxTime

Threads == 1..MaxThreads

\* An id that new_id() never returns: a request for it finds no run.
UnknownId == 0

VARIABLES
    runs,     \* STORE.runs   : run id -> the shared RunState object
    events,   \* STORE.events : run id -> list of stored events
    calls,    \* one record per worker thread: the handler frame it executes
    finished, \* the frames of the calls that have returned (a bag)
    now       \* the wall clock read by now_ms()

vars == <<runs, events, calls, finished, now>>

(***************************************************************************)
(* models.py                                                               *)
(***************************************************************************)
EventType == {"LOG", "STATE_UPDATE", "CHECKPOINT_SAVED", "INTERRUPT_REQUIRED",
              "RESUMED", "COMPLETED", "ERROR", "CANCELLED"}

RunStatus == {"PENDING", "RUNNING", "WAITING_APPROVAL",
              "CANCELLED", "COMPLETED", "FAILED"}

\* RunState(runId, status, threadId, rootSpanId): timestamps default to
\* now_ms(), interrupt and error default to None (modelled as FALSE = absent).
RunState(run_id, status, t) ==
    [status      |-> status,
     createdAtMs |-> t,
     updatedAtMs |-> t,
     threadId    |-> run_id,
     interrupt   |-> FALSE,
     error       |-> FALSE]

\* AdapterEvent: ts defaults to now_ms() at construction.
AdapterEvent(type, t) == [type |-> type, ts |-> t]

(***************************************************************************)
(* store.py                                                                *)
(***************************************************************************)
has_run(run_id) == run_id \in DOMAIN runs

\* create_run: runs[id] = run ; events[id] = []
store_create_run(run_id, run) ==
    /\ runs'   = [x \in DOMAIN runs \cup {run_id} |->
                     IF x = run_id THEN run ELSE runs[x]]
    /\ events' = [x \in DOMAIN events \cup {run_id} |->
                     IF x = run_id THEN <<>> ELSE events[x]]

\* add_event: events.setdefault(id, []).append(ev)
add_event(run_id, ev) ==
    events' = [x \in DOMAIN events \cup {run_id} |->
                  IF x = run_id
                  THEN Append(IF x \in DOMAIN events THEN events[x] ELSE <<>>, ev)
                  ELSE events[x]]

\* list_events: a copy of the list
list_events(run_id) == IF run_id \in DOMAIN events THEN events[run_id] ELSE <<>>

(***************************************************************************)
(* Handler frames.                                                         *)
(*   op    : which handler the thread runs                                 *)
(*   run   : its run_id                                                    *)
(*   pc    : the statement it is at                                        *)
(*   outcome : how the handler's GRAPH.invoke ended: "Paused" (stopped     *)
(*           before the gate), "Completed" (ran to END) or "Failed"        *)
(*           (raised: the handler is in its except branch)                 *)
(*   seen  : the value of run.status read by cancel_run at line 133        *)
(*   ret   : RunCreateResponse.status                                      *)
(*   events : the list that get_events got from STORE.list_events          *)
(*   at    : the clock when the thread took its previous step              *)
(***************************************************************************)
IdleCall == [op |-> "none", run |-> UnknownId, pc |-> "idle",
             outcome |-> "NONE", seen |-> "NONE", ret |-> "NONE",
             events |-> <<>>, at |-> 0]

\* Final program counters: the HTTP outcome of the call.
DonePcs == {"done_ok", "done_404", "done_409", "done_500"}

\* Every emit_event call site of routes/runs.py: the event type it emits and
\* the statement that follows it.
EmitSite(pc) ==
    CASE pc = "c_emit_created"   -> [type |-> "LOG",                next |-> "invoke"]
      [] pc = "c_emit_interrupt" -> [type |-> "INTERRUPT_REQUIRED", next |-> "c_return"]
      [] pc = "c_emit_error"     -> [type |-> "ERROR",              next |-> "c_return"]
      [] pc = "r_emit_resumed"   -> [type |-> "RESUMED",            next |-> "invoke"]
      [] pc = "r_emit_error"     -> [type |-> "ERROR",              next |-> "done_500"]
      [] pc = "x_emit_cancelled" -> [type |-> "CANCELLED",          next |-> "done_ok"]
      [] OTHER                   -> [type |-> "NONE",               next |-> pc]

IsEmitSite(pc) == EmitSite(pc).type # "NONE"

Init ==
    /\ runs   = <<>>
    /\ events = <<>>
    /\ calls  = [t \in Threads |-> IdleCall]
    /\ finished = EmptyBag
    /\ now    = 0

\* The worker threads that are handling a call.
Active == {t \in Threads : calls[t].op # "none"}

\* A request is taken up by the first free worker thread.
CanStart(t) ==
    /\ calls[t].op = "none"
    /\ \A u \in Threads : u < t => calls[u].op # "none"
    /\ Cardinality(Active) + BagCardinality(finished) < MaxCalls

\* Thread t continues with the given frame; a frame at a final program
\* counter is the end of the call: the thread becomes free.
Goto(t, frame) ==
    IF frame.pc \in DonePcs
    THEN /\ calls' = [calls EXCEPT ![t] = IdleCall]
         /\ finished' = finished (+) SetToBag({[frame EXCEPT !.at = 0]})
    ELSE /\ calls' = [calls EXCEPT ![t] = [frame EXCEPT !.at = now]]
         /\ UNCHANGED finished

\* An operation on run_id is in flight.
InFlight(run_id) == \E t \in Active : calls[t].run = run_id

\* time.time() advances.  No guard of a handler reads the clock or a
\* timestamp, so the specifications below hold the clock still.
Tick ==
    /\ now < MaxTime
    /\ now' = now + 1
    /\ UNCHANGED <<runs, events, calls, finished>>

(***************************************************************************)
(* redaction.py                                                            *)
(*                                                                         *)
(* JSON-like values are tagged: null, a number or boolean ("num"), a       *)
(* string, a list, a mapping.  A string is modelled by its decomposition   *)
(* into the substrings that the patterns of _PATTERNS match (named by the  *)
(* pattern: "sk", "ghp", ...), the sentinel, and the text between them     *)
(* ("txt"); a mapping is a function from key strings to values.            *)
(***************************************************************************)
Null == [kind |-> "null", val |-> <<>>]
Num(n) == [kind |-> "num", val |-> n]
Str(s) == [kind |-> "str", val |-> s]
List(xs) == [kind |-> "list", val |-> xs]
Dict(f) == [kind |-> "dict", val |-> f]

\* lines 4-16: the ordered pattern list
PATTERNS == <<"sk", "ghp", "github_pat", "bearer", "akia", "api_key">>

\* line 18
REDACTED == "[REDACTED]"

\* line 23: p.sub(REDACTED, out) replaces every match of the pattern
sub(p, out) == [i \in 1..Len(out) |-> IF out[i] = p THEN REDACTED ELSE out[i]]

RECURSIVE redact_passes(_, _)
\* lines 22-23: for p in _PATTERNS, from the k-th pattern on
redact_passes(out, k) ==
    IF k > Len(PATTERNS) THEN out
    ELSE redact_passes(sub(PATTERNS[k], out), k + 1)

\* lines 20-24
redact_str(s) == redact_passes(s, 1)

RECURSIVE redact_any_shallow(_)
\* Mutant of redact_any: lists are returned as they are.
redact_any_shallow(x) ==
    CASE x.kind = "null" -> x
      [] x.kind = "str"  -> Str(redact_str(x.val))
      [] x.kind = "list" -> x
      [] x.kind = "dict" ->
             Dict([k \in DOMAIN x.val |-> redact_any_shallow(x.val[k])])
      [] OTHER           -> x

RECURSIVE redact_any(_)
\* lines 26-35
redact_any(x) ==
    CASE x.kind = "null" -> x
      [] x.kind = "str"  -> Str(redact_str(x.val))
      [] x.kind = "list" ->
             List([i \in 1..Len(x.val) |-> redact_any(x.val[i])])
      [] x.kind = "dict" ->
             Dict([k \in DOMAIN x.val |-> redact_any(x.val[k])])
      [] OTHER           -> x

\* lines 37-38
redact_event_dict(evt) == redact_any(evt)

(***************************************************************************)
(* emitter.py: emit_event                                                  *)
(***************************************************************************)
\* now_ms() (models.py:28-29) is evaluated at some moment after the thread's
\* previous step and before the step that uses the value: it returns a clock
\* value between the two.
now_ms(t) == calls[t].at .. now

\* lines 15-33: the event is constructed (its ts is now_ms(), read before the
\* store lock is taken), redacted and rehydrated with that same ts, and
\* STORE.add_event appends it under the lock.
emit_event(t) ==
    /\ IsEmitSite(calls[t].pc)
    /\ \E ts \in now_ms(t) :
          add_event(calls[t].run, AdapterEvent(EmitSite(calls[t].pc).type, ts))
    /\ Goto(t, [calls[t] EXCEPT !.pc = EmitSite(calls[t].pc).next])
    /\ UNCHANGED <<runs, now>>

(***************************************************************************)
(* emitter.py: emit_event, with the event's envelope and payload.          *)
(***************************************************************************)
\* models.py lines 34-41: the event with all its fields.  run_id and span_id
\* are uuid4 texts, which no pattern matches.
AdapterEventOf(ts, type, payload) ==
    [ts |-> ts, run_id |-> <<"txt">>, span_id |-> <<"txt">>,
     parent_span_id |-> Null, type |-> type, payload |-> payload]

\* models.py lines 44-52
to_afc_format(ev) ==
    Dict([k \in {"ts", "run_id", "span_id", "parent_span_id", "type", "payload"} |->
             CASE k = "ts"             -> Num(ev.ts)
               [] k = "run_id"         -> Str(ev.run_id)
               [] k = "span_id"        -> Str(ev.span_id)
               [] k = "parent_span_id" -> ev.parent_span_id
               [] k = "type"           -> Str(<<ev.type>>)
               [] k = "payload"        -> Dict(ev.payload)])

\* emitter.py lines 25-32: the event is built again from the redacted dict
rehydrate(redacted) ==
    [ts             |-> redacted.val["ts"].val,
     run_id         |-> redacted.val["run_id"].val,
     span_id        |-> redacted.val["span_id"].val,
     parent_span_id |-> redacted.val["parent_span_id"],
     type           |-> redacted.val["type"].val[1],
     payload        |-> redacted.val["payload"].val]

\* The frame of a returned emit_event call: what was emitted, what was stored.
EmitCall(run_id, emitted, stored) ==
    [op |-> "emit", run |-> run_id, pc |-> "done_ok",
     emitted |-> emitted, stored |-> stored]

\* emitter.py lines 8-34, called with the given type and payload
emit_event_payload(t, run_id, type, payload) ==
    /\ CanStart(t)
    /\ \E ts \in now_ms(t) :
          LET ev  == AdapterEventOf(ts, type, payload)
              ev2 == rehydrate(redact_event_dict(to_afc_format(ev)))
          IN  /\ add_event(run_id, ev2)
              /\ finished' = finished (+) SetToBag({EmitCall(run_id, ev, ev2)})
    /\ UNCHANGED <<runs, calls, now>>

\* Payloads handed to emit_event: the payload shapes of routes/runs.py lines
\* 106 (notes is the caller's text) and 73/125 (the error text), and nested
\* lists and mappings, with and without secrets.
Text == <<"txt">>
Secrets1 == <<"txt", "sk", "txt">>
Secrets2 == <<"bearer", "api_key", "ghp">>
Secrets3 == <<"akia", "txt", "github_pat", "[REDACTED]">>

Payloads ==
    { [k \in {"msg"} |-> Str(Text)],
      [k \in {"approved", "notes"} |->
          IF k = "approved" THEN Num(1) ELSE Null],
      [k \in {"approved", "notes"} |->
          IF k = "approved" THEN Num(0) ELSE Str(Secrets1)],
      [k \in {"error"} |-> Str(Secrets2)],
      [k \in {"sk"} |-> Str(Secrets3)],
      [k \in {"items"} |-> List(<<Str(Secrets1), Null, Num(1), Str(Text)>>)],
      [k \in {"items"} |-> List(<<List(<<Str(Secrets2)>>),
                                 Dict([j \in {"api_key"} |-> Str(Secrets3)])>>)],
      [k \in {"state", "akia"} |->
          IF k = "state"
          THEN Dict([j \in {"plan", "env"} |->
                        IF j = "plan" THEN Str(Text)
                        ELSE Dict([i \in {"token"} |->
                                      List(<<Str(Secrets1), Str(Secrets2)>>)])])
          ELSE List(<<>>)] }

(***************************************************************************)
(* langgraph_poc.py: the compiled graph behind GRAPH.invoke.               *)
(***************************************************************************)
\* lines 19-26: the event types plan_node emits
plan_node == <<"LOG", "STATE_UPDATE", "CHECKPOINT_SAVED">>

\* lines 28-34: the event types continue_node emits
continue_node == <<"LOG", "STATE_UPDATE", "CHECKPOINT_SAVED">>

\* lines 36-41: the event types complete_node emits
complete_node == <<"LOG", "COMPLETED">>

\* lines 48-57: the nodes one call of GRAPH.invoke runs.  The call of
\* create_run enters at "plan" and stops at the interrupt before "continue";
\* the call of resume_run goes on from there: "continue", "complete", END.
Path(op) == IF op = "create" THEN <<plan_node>>
            ELSE <<continue_node, complete_node>>

RECURSIVE Flatten(_)
Flatten(seqs) == IF seqs = <<>> THEN <<>> ELSE Head(seqs) \o Flatten(Tail(seqs))

\* The non-decreasing sequences of n clock values read by n successive
\* now_ms() calls of thread t.
Stamps(t, n) ==
    {f \in [1..n -> now_ms(t)] : \A i \in 1..(n - 1) : f[i] <= f[i + 1]}

\* The emit_event calls of the nodes: events of the given types are appended
\* to the log of the thread's run, in order.
emit_events(t, types) ==
    \E f \in Stamps(t, Len(types)) :
        events' = [events EXCEPT ![calls[t].run] =
                      @ \o [i \in 1..Len(types) |-> AdapterEvent(types[i], f[i])]]

\* GRAPH.invoke returns: every node of the call's path has run.
GRAPH_invoke(t) ==
    /\ calls[t].pc = "invoke"
    /\ emit_events(t, Flatten(Path(calls[t].op)))
    /\ Goto(t, [calls[t] EXCEPT
                   !.pc = IF calls[t].op = "create" THEN "gate" ELSE "end"])
    /\ UNCHANGED <<runs, now>>

\* GRAPH.invoke raises: a fault before the first node of the path or after
\* any of its nodes.
GRAPH_invoke_raises(t) ==
    /\ calls[t].pc = "invoke"
    /\ \E k \in 0..Len(Path(calls[t].op)) :
          emit_events(t, Flatten(SubSeq(Path(calls[t].op), 1, k)))
    /\ Goto(t, [calls[t] EXCEPT !.pc = "raised"])
    /\ UNCHANGED <<runs, now>>

\* The engine completes the workflow inside Create's Invoke instead of
\* pausing: outcome Completed of Invoke(threadId, input).
engine_no_interrupt(t) ==
    /\ calls[t].pc = "invoke"
    /\ calls[t].op = "create"
    /\ emit_events(t, plan_node \o continue_node \o complete_node)
    /\ Goto(t, [calls[t] EXCEPT !.pc = "end"])
    /\ UNCHANGED <<runs, now>>

(***************************************************************************)
(* routes/runs.py: create_run                                              *)
(***************************************************************************)
\* Mutant of create_run_store: new_id() may return the id of a stored run.
create_run_store_reuse(t) ==
    /\ CanStart(t)
    /\ \E run_id \in 1..MaxRuns :
          /\ run_id <= Cardinality(DOMAIN runs) + 1
          /\ store_create_run(run_id, RunState(run_id, "PENDING", now))
          /\ Goto(t, [IdleCall EXCEPT !.op = "create", !.run = run_id,
                                       !.pc = "c_running"])
    /\ UNCHANGED now

\* lines 33-41: new_id(), RunState(status="PENDING"), STORE.create_run(run)
create_run_store(t) ==
    /\ CanStart(t)
    /\ Cardinality(DOMAIN runs) < MaxRuns
    /\ LET run_id == Cardinality(DOMAIN runs) + 1 IN
          /\ store_create_run(run_id, RunState(run_id, "PENDING", now))
          /\ Goto(t, [IdleCall EXCEPT !.op = "create", !.run = run_id,
                                       !.pc = "c_running"])
    /\ UNCHANGED now

\* lines 44-46: run.status = "RUNNING"; updatedAtMs; STORE.update_run(run)
create_run_running(t) ==
    /\ calls[t].pc = "c_running"
    /\ \E ts \in now_ms(t) :
          runs' = [runs EXCEPT ![calls[t].run].status = "RUNNING",
                               ![calls[t].run].updatedAtMs = ts]
    /\ Goto(t, [calls[t] EXCEPT !.pc = "c_emit_created"])
    /\ UNCHANGED <<events, now>>

\* Mutant of create_run_waiting: the descriptor of lines 58-61 is not stored.
create_run_waiting_nodescriptor(t) ==
    /\ calls[t].pc \in {"gate", "end"}
    /\ calls[t].op = "create"
    /\ \E ts \in now_ms(t) :
          runs' = [runs EXCEPT ![calls[t].run].status = "WAITING_APPROVAL",
                               ![calls[t].run].updatedAtMs = ts]
    /\ Goto(t, [calls[t] EXCEPT
                   !.pc = "c_emit_interrupt",
                   !.outcome = IF calls[t].pc = "gate" THEN "Paused"
                               ELSE "Completed"])
    /\ UNCHANGED <<events, now>>

\* lines 53-63: GRAPH.invoke returned, at the interrupt point (or, with an
\* engine that does not pause, at END); run.status = "WAITING_APPROVAL";
\* run.interrupt = {...}; updatedAtMs; STORE.update_run(run)
create_run_waiting(t) ==
    /\ calls[t].pc \in {"gate", "end"}
    /\ calls[t].op = "create"
    /\ \E ts \in now_ms(t) :
          runs' = [runs EXCEPT ![calls[t].run].status = "WAITING_APPROVAL",
                               ![calls[t].run].interrupt = TRUE,
                               ![calls[t].run].updatedAtMs = ts]
    /\ Goto(t, [calls[t] EXCEPT
                   !.pc = "c_emit_interrupt",
                   !.outcome = IF calls[t].pc = "gate" THEN "Paused"
                               ELSE "Completed"])
    /\ UNCHANGED <<events, now>>

\* lines 68-72: except Exception: run.status = "FAILED"; run.error = str(e);
\* updatedAtMs; STORE.update_run(run)
create_run_failed(t) ==
    /\ calls[t].pc = "raised"
    /\ calls[t].op = "create"
    /\ \E ts \in now_ms(t) :
          runs' = [runs EXCEPT ![calls[t].run].status = "FAILED",
                               ![calls[t].run].error = TRUE,
                               ![calls[t].run].updatedAtMs = ts]
    /\ Goto(t, [calls[t] EXCEPT !.pc = "c_emit_error", !.outcome = "Failed"])
    /\ UNCHANGED <<events, now>>

\* Mutant of create_run_return: the except branch re-raises as resume_run's
\* does, instead of returning the response of line 74.
create_run_return_raises(t) ==
    /\ calls[t].pc = "c_return"
    /\ Goto(t, [calls[t] EXCEPT
                   !.ret = IF calls[t].outcome = "Failed" THEN "NONE"
                           ELSE runs[calls[t].run].status,
                   !.pc  = IF calls[t].outcome = "Failed" THEN "done_500"
                           ELSE "done_ok"])
    /\ UNCHANGED <<runs, events, now>>

\* lines 66 and 74: return RunCreateResponse(runId=run_id, status=run.status)
create_run_return(t) ==
    /\ calls[t].pc = "c_return"
    /\ Goto(t, [calls[t] EXCEPT !.ret = runs[calls[t].run].status,
                                 !.pc = "done_ok"])
    /\ UNCHANGED <<runs, events, now>>

(***************************************************************************)
(* routes/runs.py: resume_run                                              *)
(***************************************************************************)
\* Mutant of ResumeAdmits: a cancelled run may be resumed as well.
ResumeAdmits_cancelled(status) == status \in {"WAITING_APPROVAL", "CANCELLED"}

\* line 103: the guard of resume_run
ResumeAdmits(status) == status = "WAITING_APPROVAL"

\* lines 102-104: _require_run (404), then the status guard (409)
resume_run_check(t, run_id) ==
    /\ CanStart(t)
    /\ Goto(t, [IdleCall EXCEPT
                   !.op  = "resume",
                   !.run = run_id,
                   !.pc  = IF ~has_run(run_id) THEN "done_404"
                           ELSE IF ResumeAdmits(runs[run_id].status)
                                THEN "r_emit_resumed" ELSE "done_409"])
    /\ UNCHANGED <<runs, events, now>>

\* Mutant of resume_run_completed: the status write of line 114 is missing.
resume_run_completed_nowrite(t) ==
    /\ calls[t].pc = "end"
    /\ calls[t].op = "resume"
    /\ \E ts \in now_ms(t) :
          runs' = [runs EXCEPT ![calls[t].run].interrupt = FALSE,
                               ![calls[t].run].updatedAtMs = ts]
    /\ Goto(t, [calls[t] EXCEPT !.pc = "done_ok", !.outcome = "Completed"])
    /\ UNCHANGED <<events, now>>

\* lines 112-119: GRAPH.invoke returned; run.status = "COMPLETED";
\* run.interrupt = None; updatedAtMs; STORE.update_run(run); return
resume_run_completed(t) ==
    /\ calls[t].pc = "end"
    /\ calls[t].op = "resume"
    /\ \E ts \in now_ms(t) :
          runs' = [runs EXCEPT ![calls[t].run].status = "COMPLETED",
                               ![calls[t].run].interrupt = FALSE,
                               ![calls[t].run].updatedAtMs = ts]
    /\ Goto(t, [calls[t] EXCEPT !.pc = "done_ok", !.outcome = "Completed"])
    /\ UNCHANGED <<events, now>>

\* Mutant of resume_run_failed: the except branch does not write the status.
resume_run_failed_nowrite(t) ==
    /\ calls[t].pc = "raised"
    /\ calls[t].op = "resume"
    /\ \E ts \in now_ms(t) :
          runs' = [runs EXCEPT ![calls[t].run].error = TRUE,
                               ![calls[t].run].updatedAtMs = ts]
    /\ Goto(t, [calls[t] EXCEPT !.pc = "r_emit_error", !.outcome = "Failed"])
    /\ UNCHANGED <<events, now>>

\* lines 120-124: except Exception: run.status = "FAILED"; run.error = str(e);
\* updatedAtMs; STORE.update_run(run)
\* (line 125 emits ERROR and line 126 re-raises: see EmitSite r_emit_error)
resume_run_failed(t) ==
    /\ calls[t].pc = "raised"
    /\ calls[t].op = "resume"
    /\ \E ts \in now_ms(t) :
          runs' = [runs EXCEPT ![calls[t].run].status = "FAILED",
                               ![calls[t].run].error = TRUE,
                               ![calls[t].run].updatedAtMs = ts]
    /\ Goto(t, [calls[t] EXCEPT !.pc = "r_emit_error", !.outcome = "Failed"])
    /\ UNCHANGED <<events, now>>

(***************************************************************************)
(* routes/runs.py: cancel_run                                              *)
(***************************************************************************)
\* Mutant of CancelRejects: a FAILED run is not rejected.
CancelRejects_completed_only(status) == status = "COMPLETED"

\* line 131: the 409 guard of cancel_run
CancelRejects(status) == status \in {"COMPLETED", "FAILED"}

\* Mutant of CancelIsNoop: the early return of lines 133-134 is missing.
CancelIsNoop_never(status) == FALSE

\* line 133: the idempotent no-op guard of cancel_run
CancelIsNoop(status) == status = "CANCELLED"

\* lines 130-132: _require_run (404), then the first read of run.status
cancel_run_check(t, run_id) ==
    /\ CanStart(t)
    /\ Goto(t, [IdleCall EXCEPT
                   !.op  = "cancel",
                   !.run = run_id,
                   !.pc  = IF ~has_run(run_id) THEN "done_404"
                           ELSE IF CancelRejects(runs[run_id].status)
                                THEN "done_409" ELSE "x_check2"])
    /\ UNCHANGED <<runs, events, now>>

\* lines 133-134: the second read of run.status
cancel_run_check2(t) ==
    /\ calls[t].pc = "x_check2"
    /\ Goto(t, [calls[t] EXCEPT
                   !.seen = runs[calls[t].run].status,
                   !.pc   = IF CancelIsNoop(runs[calls[t].run].status)
                            THEN "done_ok" ELSE "x_cancel"])
    /\ UNCHANGED <<runs, events, now>>

\* Mutant of cancel_run_write: the cancellation also drops the interrupt
\* descriptor of the run.
cancel_run_write_clears(t) ==
    /\ calls[t].pc = "x_cancel"
    /\ \E ts \in now_ms(t) :
          runs' = [runs EXCEPT ![calls[t].run].status = "CANCELLED",
                               ![calls[t].run].interrupt = FALSE,
                               ![calls[t].run].updatedAtMs = ts]
    /\ Goto(t, [calls[t] EXCEPT !.pc = "x_emit_cancelled"])
    /\ UNCHANGED <<events, now>>

\* lines 136-138: run.status = "CANCELLED"; updatedAtMs; STORE.update_run(run)
\* (line 139 emits CANCELLED, line 140 returns: see EmitSite x_emit_cancelled)
cancel_run_write(t) ==
    /\ calls[t].pc = "x_cancel"
    /\ \E ts \in now_ms(t) :
          runs' = [runs EXCEPT ![calls[t].run].status = "CANCELLED",
                               ![calls[t].run].updatedAtMs = ts]
    /\ Goto(t, [calls[t] EXCEPT !.pc = "x_emit_cancelled"])
    /\ UNCHANGED <<events, now>>

(***************************************************************************)
(* routes/runs.py: get_events                                              *)
(***************************************************************************)
\* lines 90-91: _require_run (404); events = STORE.list_events(run_id)
get_events(t, run_id) ==
    /\ CanStart(t)
    /\ Goto(t, [IdleCall EXCEPT
                   !.op     = "events",
                   !.run    = run_id,
                   !.events = list_events(run_id),
                   !.pc     = IF has_run(run_id) THEN "g_stream" ELSE "done_404"])
    /\ UNCHANGED <<runs, events, now>>

\* Mutant of get_events_stream: the response is produced from the store's own
\* list, as if list_events had returned it instead of a copy.
get_events_stream_live(t) ==
    /\ calls[t].pc = "g_stream"
    /\ Goto(t, [calls[t] EXCEPT !.events = events[calls[t].run],
                                 !.pc = "done_ok"])
    /\ UNCHANGED <<runs, events, now>>

\* lines 93-98: the response streams the events of the list, one line each
get_events_stream(t) ==
    /\ calls[t].pc = "g_stream"
    /\ Goto(t, [calls[t] EXCEPT !.pc = "done_ok"])
    /\ UNCHANGED <<runs, events, now>>

(***************************************************************************)
(* Specifications                                                          *)
(***************************************************************************)
\* The steps every handler takes once it has been admitted.
Step(t) ==
    \/ emit_event(t)
    \/ GRAPH_invoke(t)
    \/ GRAPH_invoke_raises(t)
    \/ create_run_running(t)
    \/ create_run_waiting(t)
    \/ create_run_failed(t)
    \/ create_run_return(t)
    \/ resume_run_completed(t)
    \/ resume_run_failed(t)
    \/ cancel_run_check2(t)
    \/ cancel_run_write(t)

\* The run ids a request may carry: those of the stored runs, and one that
\* names no run.
Requested == DOMAIN runs \cup {UnknownId}

\* Requests arrive at any time, for any run id: handlers interleave freely.
Next ==
    \/ \E t \in Threads : create_run_store(t)
    \/ \E t \in Threads, r \in Requested : resume_run_check(t, r)
    \/ \E t \in Threads, r \in Requested : cancel_run_check(t, r)
    \/ \E t \in Threads : Step(t)

Spec == Init /\ [][Next]_vars

\* The Create of run_id has returned: its response has delivered the id.
Returned(run_id) ==
    \E f \in BagToSet(finished) : f.op = "create" /\ f.run = run_id

\* Clients address a run only by an id that a Create response has delivered
\* (new_id() is a fresh uuid4), or by an id that names no run; apart from
\* that, handlers interleave freely.
NextKnown ==
    \/ \E t \in Threads : create_run_store(t)
    \/ \E t \in Threads, r \in Requested :
          (has_run(r) => Returned(r)) /\ resume_run_check(t, r)
    \/ \E t \in Threads, r \in Requested :
          (has_run(r) => Returned(r)) /\ cancel_run_check(t, r)
    \/ \E t \in Threads : Step(t)

SpecKnown == Init /\ [][NextKnown]_vars

\* Calls on one run are issued one after another (a call on a run is taken up
\* only when no other call on that run is being handled); calls on different
\* runs interleave freely.
NextSerial ==
    \/ \E t \in Threads : create_run_store(t)
    \/ \E t \in Threads, r \in Requested : ~InFlight(r) /\ resume_run_check(t, r)
    \/ \E t \in Threads, r \in Requested : ~InFlight(r) /\ cancel_run_check(t, r)
    \/ \E t \in Threads : Step(t)

SpecSerial == Init /\ [][NextSerial]_vars

\* As SpecSerial, with an engine whose Invoke may run the workflow to its end
\* instead of pausing at the gate.
NextNoGate ==
    \/ NextSerial
    \/ \E t \in Threads : engine_no_interrupt(t)

SpecNoGate == Init /\ [][NextNoGate]_vars

\* As SpecKnown, with the clock advancing between the steps of the handlers.
NextClock ==
    \/ NextKnown
    \/ Tick

SpecClock == Init /\ [][NextClock]_vars

\* As SpecKnown, with clients reading the event streams of the runs as well.
NextList ==
    \/ NextKnown
    \/ \E t \in Threads, r \in Requested :
          (has_run(r) => Returned(r)) /\ get_events(t, r)
    \/ \E t \in Threads : get_events_stream(t)

SpecList == Init /\ [][NextList]_vars

\* emit_event on its own: it is called with any of the payloads, for a run
\* id and with the event types whose payload carries the caller's text.
NextEmit ==
    \E t \in Threads, type \in {"RESUMED", "ERROR"}, payload \in Payloads :
        emit_event_payload(t, 1, type, payload)

SpecEmit == Init /\ [][NextEmit]_vars

(***************************************************************************)
(* Vocabulary of the properties                                            *)
(***************************************************************************)
Terminal == {"COMPLETED", "FAILED", "CANCELLED"}

RECURSIVE CountType(_, _)
\* Number of events of the given type in a log.
CountType(log, type) ==
    IF log = <<>> THEN 0
    ELSE (IF Head(log).type = type THEN 1 ELSE 0) + CountType(Tail(log), type)

\* The frames of the calls that have returned.
Finished == BagToSet(finished)

\* Two different finished calls of the given handlers on the same stored run.
Pair(f1, op1, f2, op2) ==
    /\ f1.op = op1 /\ f2.op = op2
    /\ f1.run = f2.run
    /\ has_run(f1.run)
    /\ (f1 # f2 \/ CopiesIn(f1, finished) >= 2)

\* Number of calls of the handler on the run taken up so far.
NumCalls(op, run_id) ==
    Cardinality({t \in Threads : calls[t].op = op /\ calls[t].run = run_id})
    + BagCardinality([f \in {g \in Finished : g.op = op /\ g.run = run_id}
                         |-> finished[f]])

\* The frame of a call that was rejected with 409 by its first guard.
Conflict(op, run_id) ==
    [IdleCall EXCEPT !.op = op, !.run = run_id, !.pc = "done_409"]

(***************************************************************************)
(* C1.  Of two Resume calls on a run, one of them admitted (it found the   *)
(* run in WAITING_APPROVAL) and the engine failing in neither: the         *)
(* admitted one returns success, the other returns Conflict (409), and the *)
(* run's log holds exactly one RESUMED event.                              *)
(* The handlers violate it: both calls read WAITING_APPROVAL at line 103   *)
(* before either writes the status at line 114.                            *)
(***************************************************************************)
C1_DoubleResumeExclusive ==
    \A f1, f2 \in Finished :
        ( /\ Pair(f1, "resume", f2, "resume")
          /\ f1.pc # "done_409"
          /\ f1.outcome # "Failed" /\ f2.outcome # "Failed" )
        => /\ f1.pc = "done_ok"
           /\ f2.pc = "done_409"
           /\ CountType(events[f1.run], "RESUMED") = 1

(***************************************************************************)
(* C2.  A Resume and a Cancel that found the run in WAITING_APPROVAL never *)
(* both return success: one of the two observes Conflict.                  *)
(* The handlers violate it: neither check-then-write is atomic.            *)
(***************************************************************************)
C2_ResumeCancelExclusive ==
    \A f1, f2 \in Finished :
        ( /\ Pair(f1, "resume", f2, "cancel")
          /\ f2.seen = "WAITING_APPROVAL" )
        => ~(f1.pc = "done_ok" /\ f2.pc = "done_ok")

(***************************************************************************)
(* C3.  Terminal states are absorbing: no step changes the status of a run *)
(* that is COMPLETED, FAILED or CANCELLED.                                 *)
(* The handlers violate it: a handler admitted before the run became       *)
(* terminal still performs its status write afterwards.                    *)
(***************************************************************************)
C3_TerminalAbsorbing ==
    [][\A r \in DOMAIN runs :
          runs[r].status \in Terminal => runs'[r].status = runs[r].status]_vars

(***************************************************************************)
(* C4.  Cancel is idempotent (calls on the run issued one after another):  *)
(* of two Cancel calls on a run, the first finding it non-terminal, both   *)
(* return success, the run is CANCELLED and its log holds exactly one      *)
(* CANCELLED event.                                                        *)
(***************************************************************************)
C4_CancelIdempotent ==
    \A f1, f2 \in Finished :
        ( /\ Pair(f1, "cancel", f2, "cancel")
          /\ f1.seen \notin Terminal \cup {"NONE"} )
        => /\ f1.pc = "done_ok"
           /\ f2.pc = "done_ok"
           /\ runs[f1.run].status = "CANCELLED"
           /\ CountType(events[f1.run], "CANCELLED") = 1

\* Reached: a Cancel that cancelled a waiting run and a second Cancel that
\* found it CANCELLED, both returned.
C4_Witness ==
    \E f1, f2 \in Finished :
        /\ Pair(f1, "cancel", f2, "cancel")
        /\ f1.seen = "WAITING_APPROVAL"
        /\ f2.seen = "CANCELLED"
        /\ f1.pc = "done_ok" /\ f2.pc = "done_ok"

(***************************************************************************)
(* C5.  A Resume call that finds a stored run in any status other than     *)
(* WAITING_APPROVAL ends with Conflict (409) in that very step: it appends *)
(* no event, never enters the engine (no thread is left handling it) and   *)
(* leaves every run unchanged.                                             *)
(***************************************************************************)
C5_ResumeConflict ==
    [][\A r \in DOMAIN runs :
          ( /\ NumCalls("resume", r)' > NumCalls("resume", r)
            /\ runs[r].status # "WAITING_APPROVAL" )
          => /\ CopiesIn(Conflict("resume", r), finished')
                  = CopiesIn(Conflict("resume", r), finished) + 1
             /\ calls' = calls
             /\ events' = events
             /\ runs' = runs]_vars

\* Reached: a Resume call was rejected on a run whose Create has not yet
\* left PENDING or RUNNING.
C5_Witness ==
    \E r \in DOMAIN runs :
        /\ Conflict("resume", r) \in Finished
        /\ runs[r].status \in {"PENDING", "RUNNING"}

(***************************************************************************)
(* C6.  When the engine call of a Resume returns, the Resume writes status *)
(* COMPLETED and returns success, and the run's log holds that call's      *)
(* RESUMED event with a COMPLETED event after it; every Resume call that   *)
(* arrives after a Resume on the run has returned success ends with        *)
(* Conflict.                                                               *)
(***************************************************************************)
RESUMED_then_COMPLETED(log) ==
    \E i, j \in 1..Len(log) :
        /\ i < j
        /\ log[i].type = "RESUMED"
        /\ log[j].type = "COMPLETED"

C6_ResumeCompletes ==
    [][/\ \A t \in Threads :
             ( /\ calls[t].op = "resume"
               /\ calls[t].pc = "end"
               /\ calls'[t].op = "none" )
             => /\ runs'[calls[t].run].status = "COMPLETED"
                /\ RESUMED_then_COMPLETED(events'[calls[t].run])
                /\ CopiesIn([calls[t] EXCEPT !.pc = "done_ok", !.at = 0,
                                             !.outcome = "Completed"], finished')
                      = CopiesIn([calls[t] EXCEPT !.pc = "done_ok", !.at = 0,
                                                !.outcome = "Completed"], finished) + 1
       /\ \A r \in DOMAIN runs :
             ( /\ NumCalls("resume", r)' > NumCalls("resume", r)
               /\ \E f \in Finished :
                     f.op = "resume" /\ f.run = r /\ f.pc = "done_ok" )
             => CopiesIn(Conflict("resume", r), finished')
                   = CopiesIn(Conflict("resume", r), finished) + 1]_vars

\* Reached: a Resume that returned success and a later Resume on the same
\* run that found it COMPLETED and was rejected.
C6_Witness ==
    \E f1, f2 \in Finished :
        /\ Pair(f1, "resume", f2, "resume")
        /\ f1.pc = "done_ok"
        /\ f2.pc = "done_409"
        /\ runs[f1.run].status = "COMPLETED"
        /\ RESUMED_then_COMPLETED(events[f1.run])

(***************************************************************************)
(* C7.  When the engine paused at the gate, then in the step in which      *)
(* Create returns the run is WAITING_APPROVAL with an interrupt            *)
(* descriptor, the returned status is WAITING_APPROVAL and                 *)
(* INTERRUPT_REQUIRED is the last event of the log.                        *)
(***************************************************************************)
LastType(log) == IF log = <<>> THEN "NONE" ELSE log[Len(log)].type

C7_CreatePaused ==
    [][\A t \in Threads :
          ( /\ calls[t].op = "create"
            /\ calls[t].outcome = "Paused"
            /\ calls[t].pc = "c_return"
            /\ calls'[t].op = "none" )
          => /\ runs'[calls[t].run].status = "WAITING_APPROVAL"
             /\ runs'[calls[t].run].interrupt
             /\ \E f \in BagToSet(finished') :
                   /\ f.op = "create" /\ f.run = calls[t].run
                   /\ f.pc = "done_ok"
                   /\ f.ret = "WAITING_APPROVAL"
             /\ LastType(events'[calls[t].run]) = "INTERRUPT_REQUIRED"]_vars

\* Reached: a Create whose engine call paused has returned.
C7_Witness ==
    \E f \in Finished :
        /\ f.op = "create"
        /\ f.outcome = "Paused"
        /\ f.pc = "done_ok"
        /\ f.ret = "WAITING_APPROVAL"

(***************************************************************************)
(* C8.  (Calls on the run issued one after another.)  A Create or Resume   *)
(* whose engine call failed leaves the run FAILED with the error recorded  *)
(* and an ERROR event in its log; and a run on which no call is being      *)
(* handled is never PENDING or RUNNING.                                    *)
(***************************************************************************)
C8_EngineFailureIsFailed ==
    /\ \A f \in Finished :
          f.outcome = "Failed"
          => /\ runs[f.run].status = "FAILED"
             /\ runs[f.run].error
             /\ CountType(events[f.run], "ERROR") >= 1
    /\ \A r \in DOMAIN runs :
          ~InFlight(r) => runs[r].status \notin {"PENDING", "RUNNING"}

\* Reached: a Resume whose engine call failed has returned, and so has a
\* Create whose engine call failed.
C8_Witness ==
    \E f1, f2 \in Finished :
        /\ f1.op = "resume" /\ f1.outcome = "Failed"
        /\ f2.op = "create" /\ f2.outcome = "Failed"
        /\ ~InFlight(f1.run) /\ ~InFlight(f2.run)

(***************************************************************************)
(* C9.  (Calls on the run issued one after another.)  An engine failure    *)
(* inside Create is absorbed: Create returns a normal response with status *)
(* FAILED.  An engine failure inside Resume is surfaced: Resume ends with  *)
(* an error (not success), after FAILED was recorded and ERROR was logged. *)
(***************************************************************************)
C9_FailureAsymmetry ==
    \A f \in Finished :
        f.outcome = "Failed"
        => /\ f.op = "create" => (f.pc = "done_ok" /\ f.ret = "FAILED")
           /\ f.op = "resume"
              => /\ f.pc = "done_500"
                 /\ runs[f.run].status = "FAILED"
                 /\ LastType(events[f.run]) = "ERROR"

\* Reached: a Create that absorbed an engine failure and a Resume (of another
\* run) that surfaced one.
C9_Witness ==
    \E f1, f2 \in Finished :
        /\ f1.op = "create" /\ f1.outcome = "Failed"
        /\ f1.pc = "done_ok" /\ f1.ret = "FAILED"
        /\ f2.op = "resume" /\ f2.outcome = "Failed"
        /\ f2.pc = "done_500"
        /\ runs[f2.run].status = "FAILED"

C11_CancelConflictOrNoop ==
    [][/\ \A r \in DOMAIN runs :
             ( /\ NumCalls("cancel", r)' > NumCalls("cancel", r)
               /\ runs[r].status \in {"COMPLETED", "FAILED"} )
             => /\ CopiesIn(Conflict("cancel", r), finished')
                     = CopiesIn(Conflict("cancel", r), finished) + 1
                /\ calls' = calls
                /\ events' = events
                /\ runs' = runs
       /\ \A r \in DOMAIN runs :
             ( /\ NumCalls("cancel", r)' > NumCalls("cancel", r)
               /\ runs[r].status = "CANCELLED" )
             => /\ finished' = finished
                /\ events' = events
                /\ runs' = runs
       /\ \A t \in Threads :
             ( /\ calls[t].op = "cancel"
               /\ calls[t].pc = "x_check2"
               /\ calls'[t] # calls[t]
               /\ runs[calls[t].run].status = "CANCELLED" )
             => /\ calls'[t].op = "none"
                /\ CopiesIn([calls[t] EXCEPT !.pc = "done_ok", !.at = 0,
                                             !.seen = "CANCELLED"], finished')
                     = CopiesIn([calls[t] EXCEPT !.pc = "done_ok", !.at = 0,
                                                !.seen = "CANCELLED"], finished) + 1
                /\ events' = events
                /\ runs' = runs]_vars

\* Reached: a Cancel rejected on a completed run, the run still COMPLETED.
C11_Witness ==
    \E r \in DOMAIN runs :
        /\ Conflict("cancel", r) \in Finished
        /\ runs[r].status = "COMPLETED"

(***************************************************************************)
(* C12.  In every reachable state the timestamps of every run's log are    *)
(* non-decreasing in list order (list_events returns the log in append     *)
(* order).                                                                 *)
(* emit_event violates it: the event's ts is read when the event is        *)
(* constructed (line 15), the append happens later under the store lock    *)
(* (line 33); of two handlers emitting for one run, the one that           *)
(* constructed its event first may append last.                            *)
(***************************************************************************)
C12_TimestampsMonotone ==
    \A r \in DOMAIN runs :
        \A i \in 1..(Len(list_events(r)) - 1) :
            list_events(r)[i].ts <= list_events(r)[i + 1].ts

(***************************************************************************)
(* C13.  Every stored event is the emitted event with the redaction        *)
(* applied: no string of its payload, at any depth of lists and mappings,  *)
(* holds a substring that a pattern matches; where the emitted payload     *)
(* held one, the stored payload holds the sentinel, and everything else,   *)
(* the keys of every mapping included, is as emitted.  What the events     *)
(* stream returns is the stored log.                                       *)
(***************************************************************************)
IsSecret(seg) == \E k \in 1..Len(PATTERNS) : PATTERNS[k] = seg

RECURSIVE Clean(_)
\* No string in the value holds a recognized secret.
Clean(x) ==
    CASE x.kind = "str"  -> \A i \in 1..Len(x.val) : ~IsSecret(x.val[i])
      [] x.kind = "list" -> \A i \in 1..Len(x.val) : Clean(x.val[i])
      [] x.kind = "dict" -> \A k \in DOMAIN x.val : Clean(x.val[k])
      [] OTHER           -> TRUE

RECURSIVE Scrubbed(_, _)
\* y is x with exactly its secrets replaced by the sentinel.
Scrubbed(x, y) ==
    /\ y.kind = x.kind
    /\ CASE x.kind = "str" ->
                /\ Len(y.val) = Len(x.val)
                /\ \A i \in 1..Len(x.val) :
                      y.val[i] = IF IsSecret(x.val[i]) THEN REDACTED ELSE x.val[i]
         [] x.kind = "list" ->
                /\ Len(y.val) = Len(x.val)
                /\ \A i \in 1..Len(x.val) : Scrubbed(x.val[i], y.val[i])
         [] x.kind = "dict" ->
                /\ DOMAIN y.val = DOMAIN x.val
                /\ \A k \in DOMAIN x.val : Scrubbed(x.val[k], y.val[k])
         [] OTHER -> y = x

C13_StoredEventsRedacted ==
    /\ \A r \in DOMAIN events :
          \A i \in 1..Len(list_events(r)) :
              /\ Clean(Dict(list_events(r)[i].payload))
              /\ \E f \in Finished : f.run = r /\ f.stored = list_events(r)[i]
    /\ \A f \in Finished :
          /\ Scrubbed(Dict(f.emitted.payload), Dict(f.stored.payload))
          /\ f.stored.type = f.emitted.type
          /\ f.stored.ts = f.emitted.ts

\* Reached: an event whose emitted payload held secrets inside a list inside
\* a mapping is in the log, with the sentinel in their place.
C13_Witness ==
    \E f \in Finished :
        /\ \E k \in DOMAIN f.emitted.payload :
              /\ f.emitted.payload[k].kind = "list"
              /\ ~Clean(f.emitted.payload[k])
        /\ \E i \in 1..Len(list_events(f.run)) : list_events(f.run)[i] = f.stored
        /\ Clean(Dict(f.stored.payload))
        /\ f.stored.payload # f.emitted.payload

(***************************************************************************)
(* C14.  In every reachable state a run's interrupt descriptor is present  *)
(* only while its status is WAITING_APPROVAL.                              *)
(* The handlers violate it: cancel_run (lines 136-138) and the except      *)
(* branch of resume_run (lines 121-124) leave run.interrupt as it is.      *)
(***************************************************************************)
C14_InterruptOnlyWhileWaiting ==
    \A r \in DOMAIN runs :
        runs[r].interrupt => runs[r].status = "WAITING_APPROVAL"

(***************************************************************************)
(* C15.  In every reachable state, under every interleaving of the         *)
(* handlers, a run's error message is present only when its status is      *)
(* FAILED.                                                                 *)
(* The handlers violate it: a handler admitted before the failure          *)
(* overwrites FAILED afterwards (a Cancel writes CANCELLED, a second       *)
(* Resume COMPLETED) and the error message stays.                          *)
(***************************************************************************)
C15_ErrorOnlyWhenFailed ==
    \A r \in DOMAIN runs :
        runs[r].error => runs[r].status = "FAILED"

(***************************************************************************)
(* C16.  Every run's log is append-only: in every step the log before the  *)
(* step is a prefix of the log after it; and the list that get_events got  *)
(* from list_events stays as it was while events are appended, up to the   *)
(* response that streams it.                                               *)
(***************************************************************************)
IsPrefix(a, b) == Len(a) <= Len(b) /\ SubSeq(b, 1, Len(a)) = a

C16_AppendOnly ==
    [][/\ \A r \in DOMAIN events :
             /\ r \in DOMAIN events'
             /\ IsPrefix(events[r], events'[r])
       /\ \A t \in Threads :
             calls[t].op = "events"
             => \/ /\ calls'[t].op = "events"
                   /\ calls'[t].events = calls[t].events
                \/ /\ calls'[t].op = "none"
                   /\ CopiesIn([calls[t] EXCEPT !.pc = "done_ok", !.at = 0],
                               finished')
                        = CopiesIn([calls[t] EXCEPT !.pc = "done_ok", !.at = 0],
                                   finished) + 1]_vars

\* Reached: a returned get_events whose list is shorter than the run's log by
\* now: events were appended after list_events had returned.
C16_Witness ==
    \E f \in Finished :
        /\ f.op = "events"
        /\ f.pc = "done_ok"
        /\ f.events # <<>>
        /\ IsPrefix(f.events, events[f.run])
        /\ Len(f.events) < Len(events[f.run])

(***************************************************************************)
(* C17.  At most one engine Invoke per run: the engine is started (called  *)
(* with the start input, line 53) only by the Create that allocated the    *)
(* run, whose threadId is the fresh run id.  Whenever a call makes that    *)
(* engine call, it is the only Create there has been on the run and no     *)
(* engine node has run for the run yet; and no run has two Creates.  The   *)
(* engine call of resume_run (line 112) is the engine's Resume: it passes  *)
(* the approval and continues from the checkpoint of the thread.           *)
(***************************************************************************)
C17_AtMostOneInvoke ==
    [][/\ \A t \in Threads :
             ( /\ calls[t].op = "create"
               /\ calls[t].pc = "invoke"
               /\ calls'[t] # calls[t] )
             => /\ NumCalls("create", calls[t].run) = 1
                /\ runs[calls[t].run].threadId = calls[t].run
                /\ CountType(events[calls[t].run], "CHECKPOINT_SAVED") = 0
       /\ \A r \in DOMAIN runs' : NumCalls("create", r)' = 1]_vars

\* Reached: a run whose Create made its engine call, which paused, and whose
\* Resume then made the second engine call on the same thread.
C17_Witness ==
    \E r \in DOMAIN runs :
        /\ \E f \in Finished :
              f.op = "create" /\ f.run = r /\ f.outcome = "Paused"
        /\ \E f \in Finished :
              f.op = "resume" /\ f.run = r /\ f.pc = "done_ok"
        /\ CountType(events[r], "CHECKPOINT_SAVED") = 2

(***************************************************************************)
(* C18.  Cancel never calls the engine.  Every step of a Cancel call on a  *)
(* run changes at most that run's status (to CANCELLED) and updatedAtMs,   *)
(* appends at most one event, a CANCELLED event, to that run's log, after  *)
(* which the call returns; it never is at or past an engine call, creates  *)
(* no run, and leaves every other run and every other log as they were.   *)
(***************************************************************************)
\* The step is one of a Cancel call on run_id: the call starts, or moves.
CancelStep(run_id) ==
    \/ NumCalls("cancel", run_id)' > NumCalls("cancel", run_id)
    \/ \E t \in Threads : /\ calls[t].op = "cancel"
                          /\ calls[t].run = run_id
                          /\ calls'[t] # calls[t]

EnginePcs == {"invoke", "gate", "end", "raised"}

C18_CancelFrame ==
    [][\A r \in Requested :
          CancelStep(r)
          => /\ DOMAIN runs' = DOMAIN runs
             /\ DOMAIN events' = DOMAIN events
             /\ \A x \in DOMAIN runs \ {r} :
                   runs'[x] = runs[x] /\ events'[x] = events[x]
             /\ \A t \in Threads :
                   (calls'[t].op = "cancel" /\ calls'[t].run = r)
                   => calls'[t].pc \notin EnginePcs
             /\ has_run(r)
                => /\ runs'[r] = [runs[r] EXCEPT
                                     !.status = runs'[r].status,
                                     !.updatedAtMs = runs'[r].updatedAtMs]
                   /\ runs'[r].status \in {runs[r].status, "CANCELLED"}
                   /\ \/ events'[r] = events[r]
                      \/ /\ Len(events'[r]) = Len(events[r]) + 1
                         /\ IsPrefix(events[r], events'[r])
                         /\ LastType(events'[r]) = "CANCELLED"
                         /\ \A t \in Threads :
                               (calls[t].op = "cancel" /\ calls'[t] # calls[t])
                               => calls'[t].op = "none"]_vars

\* Reached: a Cancel has cancelled a waiting run and returned, its CANCELLED
\* event is in the log, and another run is waiting with its own log.
C18_Witness ==
    \E r, x \in DOMAIN runs :
        /\ r # x
        /\ runs[r].status = "CANCELLED"
        /\ runs[r].interrupt
        /\ CountType(events[r], "CANCELLED") = 1
        /\ \E f \in Finished : f.op = "cancel" /\ f.run = r /\ f.pc = "done_ok"
        /\ runs[x].status = "WAITING_APPROVAL"
        /\ events[x] # <<>>

(***************************************************************************)
(* C19.  In every reachable state, each RESUMED event of a run's log has   *)
(* an INTERRUPT_REQUIRED event before it in that log.                      *)
(* create_run violates it: line 57 stores WAITING_APPROVAL before line 65  *)
(* emits INTERRUPT_REQUIRED, and a Resume that reads the status in between *)
(* is admitted (line 103) and emits RESUMED (line 106) first.              *)
(***************************************************************************)
C19_ResumedAfterInterrupt ==
    \A r \in DOMAIN events :
        \A i \in 1..Len(events[r]) :
            events[r][i].type = "RESUMED"
            => \E j \in 1..(i - 1) : events[r][j].type = "INTERRUPT_REQUIRED"

(***************************************************************************)
(* C20.  In every reachable state a run's log holds at most one terminal   *)
(* event (COMPLETED, ERROR or CANCELLED); and when it holds one and no     *)
(* call on the run is being handled, the run's status is the matching one  *)
(* (COMPLETED, FAILED or CANCELLED).                                       *)
(* The handlers violate it: complete_node emits COMPLETED inside the       *)
(* engine call, and an engine call that fails after it makes the handler   *)
(* emit ERROR as well (lines 68-73, 120-125); concurrent Resume and Cancel *)
(* calls each emit their own terminal event.                               *)
(***************************************************************************)
TerminalEvents == {"COMPLETED", "ERROR", "CANCELLED"}

StatusOf(type) == IF type = "ERROR" THEN "FAILED" ELSE type

NumTerminalEvents(log) ==
    CountType(log, "COMPLETED") + CountType(log, "ERROR")
        + CountType(log, "CANCELLED")

C20_OneTerminalEvent ==
    \A r \in DOMAIN events :
        /\ NumTerminalEvents(events[r]) <= 1
        /\ ~InFlight(r)
           => \A i \in 1..Len(events[r]) :
                 events[r][i].type \in TerminalEvents
                 => runs[r].status = StatusOf(events[r][i].type)

====
